---- MODULE Spec2Model ----
(***************************************************************************)
(* Delay Repay Finder (src/App.py): the scrape loop of run_full_scrape,    *)
(* the delay computation of process_delays, and the top-delay selection,   *)
(* enrichment, display and export steps of the page script.                *)
(*                                                                         *)
(* Texts are modelled by their structure.  A time text "0730" is the tuple *)
(* of its digits <<0,7,3,0>>; a missing text (Python None) is <<>>.  A     *)
(* station name is the tuple of its words.  A missing number (None / NaN)  *)
(* is NaN.  An f-string is the tuple of its literal and formatted parts.   *)
(***************************************************************************)
EXTENDS Integers, Sequences, FiniteSets, TLC

VARIABLES
  date_list,      \* argument of run_full_scrape: the requested dates
  am_hours,       \* argument of run_full_scrape: morning hours
  pm_hours,       \* argument of run_full_scrape: evening hours
  site,           \* state of the remote detail pages during this run
  tie_policy,     \* how this build's sort_values orders rows with equal keys
  pc,             \* position of the script
  job_i,          \* number of loop iterations of "for job in jobs" completed
  all_raw_data,   \* rows accumulated by the scrape loop
  issued,         \* number of requests.get calls made by the scrape loop
  paused,         \* whether time.sleep(0.05) ran after the latest request
  last_status,    \* how the latest request ended
  concat,         \* pd.concat(final_dfs) of the latest run_full_scrape
  df,             \* the table returned by run_full_scrape, enriched in place
  scraped,        \* df as run_full_scrape returned it
  target_df,      \* index of target_df: positions of df, in order
  enrich_i,       \* number of enrichment iterations completed
  fetch_calls,    \* positions for which fetch_detailed_departure was called
  dep_writes,     \* positions whose 'Sched Dep' was assigned
  display_rows,   \* rows of the final display table
  csv_rows,       \* rows handed to the CSV download
  trains_df,      \* process_delays: the group, sorted once the sort has run
  row_i,          \* process_delays: number of loop iterations completed
  results         \* process_delays: the results list

vars == <<date_list, am_hours, pm_hours, site, tie_policy, pc, job_i, all_raw_data,
          issued, paused, last_status, concat, df, scraped, target_df,
          enrich_i, fetch_calls, dep_writes, display_rows, csv_rows,
          trains_df, row_i, results>>

scrape_vars == <<date_list, am_hours, pm_hours, site, tie_policy, job_i, all_raw_data,
                 issued, paused, last_status, concat, df, scraped, target_df,
                 enrich_i, fetch_calls, dep_writes, display_rows, csv_rows>>

delay_vars == <<trains_df, row_i, results>>

(***************************************************************************)
(* Bounds of the model.                                                    *)
(***************************************************************************)
MaxGroup == 3       \* rows of a group handed to process_delays on its own
MaxListing == 2     \* service rows of one listing page
MaxRows == 3        \* rows accumulated by one scan
MaxDayRows == 6     \* rows accumulated by a scan of a single busy day

(***************************************************************************)
(* Program constants.                                                      *)
(***************************************************************************)
NaN == -1                   \* None / NaN of a minutes column
WrapThreshold == -1000      \* "if diff < -1000"
DayMinutes == 1440          \* "diff += 1440"
NoReplacementDelay == 999   \* "delay = 999"
MinDelay == 15              \* "df['Delay_Mins'] >= 15"
TopN == 5                   \* ".head(5)"

NoText == <<>>

T0000 == <<0,0,0,0>>
T0005 == <<0,0,0,5>>
T0729 == <<0,7,2,9>>
T0730 == <<0,7,3,0>>
T0731 == <<0,7,3,1>>
T0745 == <<0,7,4,5>>
T0800 == <<0,8,0,0>>
T0810 == <<0,8,1,0>>
T0840 == <<0,8,4,0>>
T2350 == <<2,3,5,0>>

Sevenoaks == <<"Sevenoaks">>
Tonbridge == <<"Tonbridge">>
LondonCharingCross == <<"London", "Charing", "Cross">>
LondonCannonStreet == <<"London", "Cannon", "Street">>

(***************************************************************************)
(* Sequence helpers.                                                       *)
(***************************************************************************)
Range(s) == {s[k] : k \in 1..Len(s)}

Reverse(s) == [k \in 1..Len(s) |-> s[Len(s) + 1 - k]]

RECURSIVE Flatten(_)
Flatten(ss) == IF ss = <<>> THEN <<>> ELSE Head(ss) \o Flatten(Tail(ss))

\* re.fullmatch(r'\d{4}', t_str)
IsFourDigits(t) == Len(t) = 4 /\ \A k \in 1..4 : t[k] \in 0..9

\* clean_time: minutes of a 4-digit text, None for anything else
clean_time(t_str) ==
  IF t_str = NoText THEN NaN
  ELSE IF ~IsFourDigits(t_str) THEN NaN
  ELSE (t_str[1] * 10 + t_str[2]) * 60 + (t_str[3] * 10 + t_str[4])

notna(x) == x # NaN

(***************************************************************************)
(* sort_values(col): pandas sorts with its default kind, quicksort, which  *)
(* does not promise to keep rows with equal keys in their original order.  *)
(* The outcomes modelled are the order-keeping sort ("stable") and the one *)
(* that leaves equal keys in reverse order ("reversed"); which one a run   *)
(* gets is fixed for the run (tie_policy).                                 *)
(***************************************************************************)
TiePolicies == {"stable", "reversed"}

\* insert position x into the ascending order s of positions, after its equals
RECURSIVE InsertAsc(_, _, _)
InsertAsc(x, s, keys) ==
  IF s = <<>> THEN <<x>>
  ELSE IF keys[Head(s)] <= keys[x] THEN <<Head(s)>> \o InsertAsc(x, Tail(s), keys)
  ELSE <<x>> \o s

\* the positions in the order ps, sorted by ascending key, equal keys in ps order
RECURSIVE StableAsc(_, _)
StableAsc(ps, keys) ==
  IF ps = <<>> THEN <<>>
  ELSE InsertAsc(ps[Len(ps)], StableAsc(SubSeq(ps, 1, Len(ps) - 1), keys), keys)

\* sort_values: the rows of s ordered by keys (keys[k] is the key of s[k])
argsort(keys, ascending, policy) ==
  LET n == Len(keys)
      ks == [k \in 1..n |-> IF ascending THEN keys[k] ELSE 0 - keys[k]]
      ps == [k \in 1..n |-> IF policy = "stable" THEN k ELSE n + 1 - k]
  IN  StableAsc(ps, ks)

sort_values(s, keys, ascending, policy) ==
  LET order == argsort(keys, ascending, policy)
  IN  [k \in 1..Len(s) |-> s[order[k]]]

(***************************************************************************)
(* The text of one service row of a listing page, by its parts: the four   *)
(* leading digits (NoText when it does not start with four digits), the    *)
(* origin name, whether it contains "Cancel", whether it contains          *)
(* "On time", the HHMM after "Arrived at" (NoText when absent), and the    *)
(* href of the row's link.                                                 *)
(***************************************************************************)
Text(digits, origin, cancel, on_time, arrived, href) ==
  [digits |-> digits, origin |-> origin, cancel |-> cancel,
   on_time |-> on_time, arrived |-> arrived, href |-> href]

NotARecord == [origin |-> NoText, sched |-> NoText, act |-> NoText, status |-> "None"]

parse_row_text(text) ==
  IF ~IsFourDigits(text.digits) THEN NotARecord
  ELSE IF text.cancel
    THEN [origin |-> text.origin, sched |-> text.digits, act |-> NoText,
          status |-> "CANCELLED"]
  ELSE IF text.on_time
    THEN [origin |-> text.origin, sched |-> text.digits, act |-> text.digits,
          status |-> "ON TIME"]
  ELSE IF text.arrived # NoText
    THEN [origin |-> text.origin, sched |-> text.digits, act |-> text.arrived,
          status |-> "LATE/EARLY"]
  ELSE [origin |-> text.origin, sched |-> text.digits, act |-> NoText,
        status |-> "NO REPORT"]

(***************************************************************************)
(* The jobs of one date, in the order run_full_scrape builds them.         *)
(***************************************************************************)
Termini == <<"CHX", "CST">>

am_job(d, h, term) ==
  [url |-> <<term, d, h>>, dir |-> "To London", filter |-> <<Sevenoaks>>,
   dest_code |-> term]

pm_job(d, h) ==
  [url |-> <<"SEV", d, h>>, dir |-> "To Home",
   filter |-> <<LondonCharingCross, LondonCannonStreet>>, dest_code |-> "SEV"]

jobs_of(d, am, pm) ==
  Flatten([a \in 1..Len(am) |-> [t \in 1..2 |-> am_job(d, am[a], Termini[t])]])
    \o [p \in 1..Len(pm) |-> pm_job(d, pm[p])]

\* "f in origin": the words of f occur in origin, next to each other
contains(origin, f) ==
  \E k \in 0..(Len(origin) - Len(f)) : SubSeq(origin, k + 1, k + Len(f)) = f

passes_filter(job, origin) ==
  \E k \in 1..Len(job.filter) : contains(origin, job.filter[k])

\* the dict appended to all_raw_data for one retained row
raw_row(d, job, text) ==
  LET p == parse_row_text(text)
  IN  [dt_obj |-> d, direction |-> job.dir, origin |-> p.origin,
       dest_code |-> job.dest_code, sched_str |-> p.sched, act_str |-> p.act,
       sched_mins |-> clean_time(p.sched), act_mins |-> clean_time(p.act),
       status_raw |-> p.status, url |-> text.href]

\* "if sched:" and "if any(f in origin for f in filters):"
retained(job, text) ==
  LET p == parse_row_text(text)
  IN  p.sched # NoText /\ passes_filter(job, p.origin)

RECURSIVE rows_of_listing(_, _, _)
rows_of_listing(d, job, listing) ==
  IF listing = <<>> THEN <<>>
  ELSE (IF retained(job, Head(listing)) THEN <<raw_row(d, job, Head(listing))>>
        ELSE <<>>) \o rows_of_listing(d, job, Tail(listing))

(***************************************************************************)
(* process_delays.                                                         *)
(***************************************************************************)
\* wrap_diff with the correction applied to every negative difference
wrap_diff_any_negative(diff) == IF diff < 0 THEN diff + DayMinutes ELSE diff

\* "if diff < -1000: diff += 1440"
wrap_diff(diff) == IF diff < WrapThreshold THEN diff + DayMinutes ELSE diff

\* the loop "for j in range(i + 1, len(trains_df))": 0 when next_train is None
RECURSIVE next_train(_, _)
next_train(tdf, j) ==
  IF j > Len(tdf) THEN 0
  ELSE IF tdf[j].status_raw # "CANCELLED" THEN j
  ELSE next_train(tdf, j + 1)

cancelled_delay(tdf, i) ==
  LET j == next_train(tdf, i + 1)
  IN  IF j # 0 /\ notna(tdf[j].act_mins) /\ tdf[j].act_mins > 0
      THEN [delay |-> wrap_diff(tdf[j].act_mins - tdf[i].sched_mins),
            notes |-> <<"Cancelled (Next Arr: ", tdf[j].act_str, ")">>]
      ELSE [delay |-> NoReplacementDelay,
            notes |-> <<"Cancelled (No replacement)">>]

arrived_delay(row) ==
  LET delay == wrap_diff(row.act_mins - row.sched_mins)
  IN  IF delay <= 0 THEN [delay |-> 0, notes |-> <<"On Time">>]
      ELSE [delay |-> delay, notes |-> <<delay, "m Late">>]

row_delay(tdf, i) ==
  IF tdf[i].status_raw = "CANCELLED" THEN cancelled_delay(tdf, i)
  ELSE IF notna(tdf[i].act_mins) /\ notna(tdf[i].sched_mins)
    THEN arrived_delay(tdf[i])
  ELSE [delay |-> 0, notes |-> <<tdf[i].status_raw>>]

\* one iteration of "for i, row in trains_df.iterrows()": the dict appended
delay_record(tdf, i) ==
  LET row == tdf[i]
      london == row.direction = "To London"
      r == row_delay(tdf, i)
  IN  [dt_obj |-> row.dt_obj,
       From |-> IF london THEN Sevenoaks ELSE row.origin,
       To |-> IF london
              THEN (IF row.dest_code = "CHX" THEN LondonCharingCross
                    ELSE LondonCannonStreet)
              ELSE Sevenoaks,
       SchedDep |-> "?",
       SchedArr |-> row.sched_str,
       ActualArr |-> IF row.act_str # NoText THEN row.act_str ELSE <<"---">>,
       Delay_Mins |-> r.delay,
       Status |-> r.notes,
       url |-> row.url,
       lookup_station |-> IF london THEN Sevenoaks ELSE row.origin]

sched_keys(rows) == [k \in 1..Len(rows) |-> rows[k].sched_mins]

\* process_delays on a non-empty group, the sort settled by policy
process_delays(group, policy) ==
  LET tdf == sort_values(group, sched_keys(group), TRUE, policy)
  IN  [i \in 1..Len(tdf) |-> delay_record(tdf, i)]

(***************************************************************************)
(* fetch_detailed_departure.  A detail page is the sequence of its         *)
(* 'location' divs: the text of the 'name' div (NoText when there is       *)
(* none), the text of the 'plan' div inside the 'dep' div ("" when either  *)
(* is missing) and the texts of all 'plan' divs of the location.           *)
(***************************************************************************)
Loc(name, dep_plan, plans) == [name |-> name, dep_plan |-> dep_plan, plans |-> plans]

DetailPage(service_url) ==
  CASE service_url = "/service/A" ->
         << Loc(<<"Hastings">>, "", <<"0630">>),
            Loc(<<"Sevenoaks">>, "0712", <<"0711", "0712">>),
            Loc(<<"London", "Charing", "Cross">>, "", <<"0745">>) >>
    [] service_url = "/service/B" ->
         << Loc(<<"Charing", "Cross", "International">>, "", <<"1729", "1730">>),
            Loc(<<"Sevenoaks">>, "", <<"1805">>) >>
    [] OTHER ->
         << Loc(NoText, "", <<>>),
            Loc(<<"SEVENOAKS">>, "0801", <<"0801">>) >>

\* str.lower on the words that occur
lower(w) ==
  CASE w = "London" -> "london"
    [] w = "International" -> "international"
    [] w = "Charing" -> "charing"
    [] w = "Cross" -> "cross"
    [] w = "Cannon" -> "cannon"
    [] w = "Street" -> "street"
    [] w = "Sevenoaks" -> "sevenoaks"
    [] w = "SEVENOAKS" -> "sevenoaks"
    [] w = "Hastings" -> "hastings"
    [] w = "Tonbridge" -> "tonbridge"
    [] OTHER -> w

\* lowercase, then drop "london", the spaces and "international"
normalize_station_name(name) ==
  LET low == [k \in 1..Len(name) |-> lower(name[k])]
      kept(w) == w \notin {"london", "international"}
  IN  SelectSeq(low, kept)

\* the loop over the locations from position i on; "-" when it falls through
RECURSIVE scan_locations(_, _, _)
scan_locations(locs, i, target_clean) ==
  IF i > Len(locs) THEN "-"
  ELSE IF locs[i].name = NoText THEN scan_locations(locs, i + 1, target_clean)
  ELSE LET row_name == normalize_station_name(locs[i].name)
       IN  IF contains(row_name, target_clean) \/ contains(target_clean, row_name)
           THEN IF locs[i].dep_plan # "" THEN locs[i].dep_plan
                ELSE IF i = 1 /\ locs[i].plans # <<>>
                     THEN locs[i].plans[Len(locs[i].plans)]
                ELSE scan_locations(locs, i + 1, target_clean)
           ELSE scan_locations(locs, i + 1, target_clean)

\* "?" when the page cannot be fetched (an exception or a status other than 200)
fetch_detailed_departure(state, service_url, target_station_name) ==
  IF state # "ok" THEN "?"
  ELSE scan_locations(DetailPage(service_url), 1,
                      normalize_station_name(target_station_name))

(***************************************************************************)
(* run_full_scrape: grouping, process_delays per group, concatenation and  *)
(* drop_duplicates.                                                        *)
(***************************************************************************)
RECURSIVE sorted_dates(_)
sorted_dates(S) ==
  IF S = {} THEN <<>>
  ELSE LET lo == CHOOSE x \in S : \A y \in S : x <= y
       IN  <<lo>> \o sorted_dates(S \ {lo})

\* the group keys in groupby's (sorted) order for one date
keys_of_date(d) ==
  << <<d, "To Home", "SEV">>, <<d, "To London", "CHX">>, <<d, "To London", "CST">> >>

group_key(r) == <<r.dt_obj, r.direction, r.dest_code>>

\* raw_df.groupby(['dt_obj', 'direction', 'dest_code']): the non-empty groups
groupby(raw) ==
  LET ds == sorted_dates({raw[k].dt_obj : k \in 1..Len(raw)})
      keys == Flatten([k \in 1..Len(ds) |-> keys_of_date(ds[k])])
      group(key) == LET in_group(r) == group_key(r) = key
                    IN  SelectSeq(raw, in_group)
      groups == [k \in 1..Len(keys) |-> group(keys[k])]
      non_empty(g) == g # <<>>
  IN  SelectSeq(groups, non_empty)

\* pd.concat(final_dfs)
concat_groups(raw, policy) ==
  LET groups == groupby(raw)
  IN  Flatten([k \in 1..Len(groups) |-> process_delays(groups[k], policy)])

dedup_key(r) == <<r.dt_obj, r.From, r.To, r.SchedArr>>

\* drop_duplicates keeping the last row of each key (keep='last')
drop_duplicates_keep_last(rows) ==
  LET last(k) == \A j \in (k + 1)..Len(rows) : dedup_key(rows[j]) # dedup_key(rows[k])
      kept == {k \in 1..Len(rows) : last(k)}
      RECURSIVE take(_)
      take(k) == IF k > Len(rows) THEN <<>>
                 ELSE (IF k \in kept THEN <<rows[k]>> ELSE <<>>) \o take(k + 1)
  IN  take(1)

\* drop_duplicates(subset=[...]) with the default keep='first'
drop_duplicates(rows) ==
  LET first(k) == \A j \in 1..(k - 1) : dedup_key(rows[j]) # dedup_key(rows[k])
      kept == {k \in 1..Len(rows) : first(k)}
      RECURSIVE take(_)
      take(k) == IF k > Len(rows) THEN <<>>
                 ELSE (IF k \in kept THEN <<rows[k]>> ELSE <<>>) \o take(k + 1)
  IN  take(1)

(***************************************************************************)
(* The page script: top delays, display rows, CSV rows.                    *)
(***************************************************************************)
\* the positions of df, in index order, that satisfy keep
RECURSIVE positions(_, _, _)
positions(table, k, keep) ==
  IF k > Len(table) THEN <<>>
  ELSE (IF k \in keep THEN <<k>> ELSE <<>>) \o positions(table, k + 1, keep)

\* head stopping one row early
head_one_short(s, n) == SubSeq(s, 1, IF Len(s) < n - 1 THEN Len(s) ELSE n - 1)

head(s, n) == SubSeq(s, 1, IF Len(s) < n THEN Len(s) ELSE n)

\* the day's rows sorted by ascending delay before head(5)
top_of_day_ascending(table, d, policy) ==
  LET day_subset == positions(table, 1,
                      {k \in 1..Len(table) :
                         table[k].Delay_Mins >= MinDelay /\ table[k].dt_obj = d})
      keys == [k \in 1..Len(day_subset) |-> table[day_subset[k]].Delay_Mins]
  IN  SubSeq(sort_values(day_subset, keys, TRUE, policy), 1,
             IF Len(day_subset) < TopN THEN Len(day_subset) ELSE TopN)

\* delayed[delayed['dt_obj'] == d].sort_values('Delay_Mins', ascending=False).head(5)
top_of_day(table, d, policy) ==
  LET day_subset == positions(table, 1,
                      {k \in 1..Len(table) :
                         table[k].Delay_Mins >= MinDelay /\ table[k].dt_obj = d})
      keys == [k \in 1..Len(day_subset) |-> table[day_subset[k]].Delay_Mins]
  IN  head(sort_values(day_subset, keys, FALSE, policy), TopN)

\* pd.concat(top_delays)
top_delays(table, dates, policy) ==
  Flatten([k \in 1..Len(dates) |-> top_of_day(table, dates[k], policy)])

\* format_date_ordinal: the day with its suffix (the month name is left out)
format_date_ordinal(day) ==
  <<day, IF 11 <= day /\ day <= 13 THEN "th"
         ELSE CASE day % 10 = 1 -> "st"
                [] day % 10 = 2 -> "nd"
                [] day % 10 = 3 -> "rd"
                [] OTHER -> "th">>

no_delays_row(d) ==
  [Date |-> format_date_ordinal(d), From |-> <<"No delays >15mn">>,
   Status |-> <<"-">>, Delay_Mins |-> 0, is_first |-> TRUE]

display_row(r, d, first) ==
  [Date |-> format_date_ordinal(d), is_first |-> first,
   dt_obj |-> r.dt_obj, From |-> r.From, To |-> r.To, SchedDep |-> r.SchedDep,
   SchedArr |-> r.SchedArr, ActualArr |-> r.ActualArr,
   Delay_Mins |-> r.Delay_Mins, Status |-> r.Status, url |-> r.url,
   lookup_station |-> r.lookup_station]

\* the rows of one date left in index order (the sort_values call missing)
display_of_day_unsorted(table, target, d, policy) ==
  LET day_data == positions(table, 1,
                    {k \in Range(target) : table[k].dt_obj = d})
  IN  IF target # <<>> /\ day_data # <<>>
      THEN [k \in 1..Len(day_data) |-> display_row(table[day_data[k]], d, k = 1)]
      ELSE <<no_delays_row(d)>>

\* the rows one date adds to display_rows
display_of_day(table, target, d, policy) ==
  LET day_data == positions(table, 1,
                    {k \in Range(target) : table[k].dt_obj = d})
      keys == [k \in 1..Len(day_data) |-> table[day_data[k]].Delay_Mins]
      sorted == sort_values(day_data, keys, FALSE, policy)
  IN  IF target # <<>> /\ day_data # <<>>
      THEN [k \in 1..Len(sorted) |-> display_row(table[sorted[k]], d, k = 1)]
      ELSE <<no_delays_row(d)>>

build_display(table, target, dates, policy) ==
  Flatten([k \in 1..Len(dates) |-> display_of_day(table, target, dates[k], policy)])

\* a row of the CSV: 'url', 'lookup_station' and 'dt_obj' are dropped
csv_row(r) ==
  [From |-> r.From, To |-> r.To, SchedDep |-> r.SchedDep, SchedArr |-> r.SchedArr,
   ActualArr |-> r.ActualArr, Delay_Mins |-> r.Delay_Mins, Status |-> r.Status]

\* df.loc[target_df.index] without the dropped columns
build_csv(table, target) == [k \in 1..Len(target) |-> csv_row(table[target[k]])]

(***************************************************************************)
(* process_delays on its own: one group of rows sharing (date, direction,  *)
(* destination code), as run_full_scrape's groupby hands it over.          *)
(***************************************************************************)
Dates == {3, 12}

\* service rows as the listing pages word them, for a given origin
DelayTexts(origin) ==
  { Text(T0000, origin, TRUE, FALSE, NoText, "/service/A"),    \* 0000 Cancelled
    Text(T0730, origin, TRUE, FALSE, NoText, "/service/A"),    \* 0730 Cancelled
    Text(T2350, origin, TRUE, FALSE, NoText, "/service/A"),    \* 2350 Cancelled
    Text(T0000, origin, FALSE, TRUE, NoText, "/service/B"),    \* 0000 On time
    Text(T0800, origin, FALSE, TRUE, NoText, "/service/B"),    \* 0800 On time
    Text(T0800, origin, FALSE, FALSE, NoText, "/service/B"),   \* 0800 Expected
    Text(T0730, origin, FALSE, FALSE, T0745, "/service/B"),    \* 0730 Arrived at 0745
    Text(T0731, origin, FALSE, FALSE, T0729, "/service/C"),    \* 0731 Arrived at 0729
    Text(T0800, origin, FALSE, FALSE, T0810, "/service/C"),    \* 0800 Arrived at 0810
    Text(T2350, origin, FALSE, FALSE, T0005, "/service/C") }   \* 2350 Arrived at 0005

GroupJobs(d) == {am_job(d, "0700", "CHX"), am_job(d, "0700", "CST"), pm_job(d, "1700")}

GroupRows(d, job) ==
  { raw_row(d, job, t) : t \in {x \in DelayTexts(job.filter[1]) : retained(job, x)} }

SeqsUpTo(S, n) == UNION { [1..k -> S] : k \in 1..n }

Idle ==
  /\ date_list = <<>> /\ am_hours = <<>> /\ pm_hours = <<>> /\ site = "ok"
  /\ job_i = 0 /\ all_raw_data = <<>> /\ issued = 0 /\ paused = FALSE
  /\ last_status = "none" /\ concat = <<>> /\ df = <<>> /\ scraped = <<>>
  /\ target_df = <<>> /\ enrich_i = 0 /\ fetch_calls = <<>> /\ dep_writes = <<>>
  /\ display_rows = <<>> /\ csv_rows = <<>>

InitDelays ==
  /\ Idle
  /\ tie_policy \in TiePolicies
  /\ pc = "process_delays"
  /\ \E d \in Dates : \E job \in GroupJobs(d) :
       trains_df \in SeqsUpTo(GroupRows(d, job), MaxGroup)
  /\ row_i = 0
  /\ results = <<>>

\* trains_df.sort_values('sched_mins').reset_index(drop=True)
SortGroup ==
  /\ pc = "process_delays"
  /\ trains_df' = sort_values(trains_df, sched_keys(trains_df), TRUE, tie_policy)
  /\ pc' = "delay_loop"
  /\ UNCHANGED <<row_i, results>>
  /\ UNCHANGED scrape_vars

\* one iteration of the loop over the sorted group
DelayRow ==
  /\ pc = "delay_loop"
  /\ row_i < Len(trains_df)
  /\ results' = Append(results, delay_record(trains_df, row_i + 1))
  /\ row_i' = row_i + 1
  /\ UNCHANGED <<pc, trains_df>>
  /\ UNCHANGED scrape_vars

\* return pd.DataFrame(results)
DelaysReturn ==
  /\ pc = "delay_loop"
  /\ row_i = Len(trains_df)
  /\ pc' = "delays_done"
  /\ UNCHANGED delay_vars
  /\ UNCHANGED scrape_vars

NextDelays == SortGroup \/ DelayRow \/ DelaysReturn

SpecDelays == InitDelays /\ [][NextDelays]_vars

(***************************************************************************)
(* Claims about process_delays (checked under SpecDelays).                 *)
(***************************************************************************)
DelayRowsDone == IF pc \in {"delay_loop", "delays_done"} THEN 1..Len(results) ELSE {}

\* the first record at or after position j that is not Cancelled and has a
\* known, positive actual time; 0 when there is none
RECURSIVE replacement(_, _)
replacement(tdf, j) ==
  IF j > Len(tdf) THEN 0
  ELSE IF /\ tdf[j].status_raw # "CANCELLED"
          /\ tdf[j].act_str # NoText
          /\ tdf[j].act_mins > 0 THEN j
  ELSE replacement(tdf, j + 1)

corrected_diff(actual, scheduled) ==
  IF actual - scheduled < -1000 THEN actual - scheduled + 1440
  ELSE actual - scheduled

\* C1: every Cancelled record of the sorted group takes as replacement the
\* first later record that is both not Cancelled and has a known, positive
\* actual time: its delay is the replacement's actual minutes minus its own
\* scheduled minutes (plus 1440 below -1000) and its note embeds the
\* replacement's actual-time text; only with no such later record does it get
\* delay 999 and the note 'Cancelled (No replacement)'.
C1_CancelledTakesFirstArrivedSuccessor ==
  \A i \in DelayRowsDone :
    trains_df[i].status_raw = "CANCELLED" =>
      LET j == replacement(trains_df, i + 1)
      IN  IF j # 0
          THEN /\ results[i].Delay_Mins =
                    corrected_diff(trains_df[j].act_mins, trains_df[i].sched_mins)
               /\ results[i].Status =
                    <<"Cancelled (Next Arr: ", trains_df[j].act_str, ")">>
          ELSE /\ results[i].Delay_Mins = 999
               /\ results[i].Status = <<"Cancelled (No replacement)">>

\* C2: every DelayRecord produced by process_delays has a delay >= 0.
C2_DelayNeverNegative ==
  \A i \in DelayRowsDone : results[i].Delay_Mins >= 0

\* C3: a non-cancelled record with scheduled and actual time known gets
\* d = actual - scheduled (plus 1440 when d < -1000), then delay 0 and
\* 'On Time' when d <= 0, otherwise delay d and '<d>m Late'; a non-cancelled
\* record with no known actual time gets delay 0 and its status label as note.
C3_NonCancelledDelay ==
  \A i \in DelayRowsDone :
    trains_df[i].status_raw # "CANCELLED" =>
      IF trains_df[i].act_str # NoText /\ trains_df[i].sched_str # NoText
      THEN LET d == corrected_diff(trains_df[i].act_mins, trains_df[i].sched_mins)
           IN  IF d <= 0
               THEN /\ results[i].Delay_Mins = 0
                    /\ results[i].Status = <<"On Time">>
               ELSE /\ results[i].Delay_Mins = d
                    /\ results[i].Status = <<d, "m Late">>
      ELSE /\ results[i].Delay_Mins = 0
           /\ results[i].Status = <<trains_df[i].status_raw>>

\* scheduled 2350 / actual 0005 was processed (15, '15m Late'), next to a row
\* without a report
C3_Witness ==
  /\ pc = "delays_done"
  /\ \E i \in 1..Len(results) :
       /\ trains_df[i].sched_str = T2350 /\ trains_df[i].act_str = T0005
       /\ results[i].Delay_Mins = 15 /\ results[i].Status = <<15, "m Late">>
  /\ \E i \in 1..Len(results) :
       /\ trains_df[i].status_raw = "NO REPORT"
       /\ results[i].Delay_Mins = 0 /\ results[i].Status = <<"NO REPORT">>

(***************************************************************************)
(* The whole run: the page script calls run_full_scrape (the scan), then   *)
(* selects, enriches, displays and exports.                                *)
(***************************************************************************)
\* date_list as the date controls build it: distinct dates, latest first
DateLists ==
  { s \in UNION { [1..n -> Dates] : n \in 0..Cardinality(Dates) } :
      \A k \in 1..(Len(s) - 1) : s[k] > s[k + 1] }

AmHourLists == {<<>>, <<"0700">>}
PmHourLists == {<<>>, <<"1700">>}
SiteStates == {"ok", "failed"}

\* service rows a listing page may hold for a job whose filter admits origin
ScanTexts(origin) ==
  { Text(T0730, origin, TRUE, FALSE, NoText, "/service/A"),     \* 0730 Cancelled
    Text(T0800, origin, FALSE, FALSE, T0840, "/service/B"),     \* 0800 Arrived at 0840
    Text(T0730, origin, FALSE, TRUE, NoText, "/service/C"),     \* 0730 On time
    Text(T0730, Tonbridge, FALSE, FALSE, T0745, "/service/C"),  \* another origin
    Text(NoText, origin, FALSE, FALSE, NoText, "/service/C") }  \* no leading time

\* the service rows of a day on which services are cancelled in a row
BusyTexts(origin) ==
  { Text(T0730, origin, TRUE, FALSE, NoText, "/service/A"),     \* 0730 Cancelled
    Text(T0800, origin, TRUE, FALSE, NoText, "/service/B"),     \* 0800 Cancelled
    Text(T0800, origin, FALSE, FALSE, T0840, "/service/B"),     \* 0800 Arrived at 0840
    Text(T0730, origin, FALSE, TRUE, NoText, "/service/C") }    \* 0730 On time

\* the jobs a scan can hold, each with its date
ScanJobs == UNION { {[d |-> d, job |-> j] : j \in GroupJobs(d)} : d \in Dates }

\* per job, what the loop over a listing of at most MaxListing service rows
\* can append to all_raw_data
ScanRowSeqs ==
  [x \in ScanJobs |->
     { rows_of_listing(x.d, x.job, listing) :
         listing \in UNION { [1..n -> ScanTexts(x.job.filter[1])] : n \in 0..MaxListing } }]

BusyRowSeqs ==
  [x \in ScanJobs |->
     { rows_of_listing(x.d, x.job, listing) :
         listing \in UNION { [1..n -> BusyTexts(x.job.filter[1])] : n \in 0..MaxListing } }]

\* every job of the scan, with its date, in the order the loops reach it
all_jobs ==
  Flatten([k \in 1..Len(date_list) |->
             LET js == jobs_of(date_list[k], am_hours, pm_hours)
             IN  [j \in 1..Len(js) |-> [d |-> date_list[k], job |-> js[j]]]])

InitScan(dates, ams, pms, sites) ==
  /\ date_list \in dates
  /\ am_hours \in ams
  /\ pm_hours \in pms
  /\ site \in sites
  /\ tie_policy \in TiePolicies
  /\ pc = "scrape"
  /\ job_i = 0 /\ all_raw_data = <<>> /\ issued = 0 /\ paused = FALSE
  /\ last_status = "none" /\ concat = <<>> /\ df = <<>> /\ scraped = <<>>
  /\ target_df = <<>> /\ enrich_i = 0 /\ fetch_calls = <<>> /\ dep_writes = <<>>
  /\ display_rows = <<>> /\ csv_rows = <<>>
  /\ trains_df = <<>> /\ row_i = 0 /\ results = <<>>

Init == InitScan(DateLists, AmHourLists, PmHourLists, SiteStates)

page_vars == <<concat, df, scraped, target_df, enrich_i, fetch_calls, dep_writes,
               display_rows, csv_rows>>
input_vars == <<date_list, am_hours, pm_hours, site, tie_policy>>

\* a request answered with status 200: its rows are parsed, filtered and
\* appended, then time.sleep(0.05)
RequestOk(cap, row_seqs) ==
  /\ pc = "scrape"
  /\ job_i < Len(all_jobs)
  /\ \E rows \in row_seqs[all_jobs[job_i + 1]] :
       /\ Len(all_raw_data) + Len(rows) <= cap
       /\ all_raw_data' = all_raw_data \o rows
  /\ issued' = issued + 1
  /\ last_status' = "ok"
  /\ paused' = TRUE
  /\ job_i' = job_i + 1
  /\ UNCHANGED <<pc, input_vars, page_vars, delay_vars>>

\* a request answered with another status: nothing is parsed, then the sleep
RequestNon200 ==
  /\ pc = "scrape"
  /\ job_i < Len(all_jobs)
  /\ issued' = issued + 1
  /\ last_status' = "non200"
  /\ paused' = TRUE
  /\ job_i' = job_i + 1
  /\ UNCHANGED <<pc, all_raw_data, input_vars, page_vars, delay_vars>>

\* requests.get raises and the exception ends the loop over the jobs
RequestError_aborts ==
  /\ pc = "scrape"
  /\ job_i < Len(all_jobs)
  /\ issued' = issued + 1
  /\ last_status' = "error"
  /\ paused' = FALSE
  /\ job_i' = Len(all_jobs)
  /\ UNCHANGED <<pc, all_raw_data, input_vars, page_vars, delay_vars>>

\* requests.get raises: "except: pass" ends the iteration
RequestError ==
  /\ pc = "scrape"
  /\ job_i < Len(all_jobs)
  /\ issued' = issued + 1
  /\ last_status' = "error"
  /\ paused' = FALSE
  /\ job_i' = job_i + 1
  /\ UNCHANGED <<pc, all_raw_data, input_vars, page_vars, delay_vars>>

\* lines 226-232, and the script's "df = run_full_scrape(...)"
Return ==
  /\ pc = "scrape"
  /\ job_i = Len(all_jobs)
  /\ concat' = concat_groups(all_raw_data, tie_policy)
  /\ df' = drop_duplicates(concat')
  /\ scraped' = df'
  /\ last_status' = "none"    \* resp and the loop are left behind
  /\ paused' = FALSE
  /\ pc' = "page"
  /\ UNCHANGED <<job_i, all_raw_data, issued, input_vars, target_df, enrich_i,
                 fetch_calls, dep_writes, display_rows, csv_rows, delay_vars>>

\* "if df.empty: st.warning(...)"
NoData ==
  /\ pc = "page"
  /\ df = <<>>
  /\ pc' = "no_data"
  /\ UNCHANGED <<scrape_vars, delay_vars>>

\* "2. Filter Top 5 > 15m"
SelectTop ==
  /\ pc = "page"
  /\ df # <<>>
  /\ target_df' = top_delays(df, date_list, tie_policy)
  /\ pc' = "enrich"
  /\ UNCHANGED <<job_i, all_raw_data, issued, paused, last_status, input_vars,
                 concat, df, scraped, enrich_i, fetch_calls, dep_writes,
                 display_rows, csv_rows, delay_vars>>

\* the enrichment writing at the loop counter instead of the index label
Enrich_by_position ==
  /\ pc = "enrich"
  /\ enrich_i < Len(target_df)
  /\ LET idx == target_df[enrich_i + 1]
         row == df[idx]
     IN  /\ df' = [df EXCEPT ![enrich_i + 1].SchedDep =
                     fetch_detailed_departure(site, row.url, row.lookup_station)]
         /\ fetch_calls' = Append(fetch_calls, idx)
         /\ dep_writes' = Append(dep_writes, enrich_i + 1)
  /\ enrich_i' = enrich_i + 1
  /\ UNCHANGED <<pc, job_i, all_raw_data, issued, paused, last_status, input_vars,
                 concat, scraped, target_df, display_rows, csv_rows, delay_vars>>

\* one iteration of "for i, idx in enumerate(target_df.index)"
Enrich ==
  /\ pc = "enrich"
  /\ enrich_i < Len(target_df)
  /\ LET idx == target_df[enrich_i + 1]
         row == df[idx]
     IN  /\ df' = [df EXCEPT ![idx].SchedDep =
                     fetch_detailed_departure(site, row.url, row.lookup_station)]
         /\ fetch_calls' = Append(fetch_calls, idx)
         /\ dep_writes' = Append(dep_writes, idx)
  /\ enrich_i' = enrich_i + 1
  /\ UNCHANGED <<pc, job_i, all_raw_data, issued, paused, last_status, input_vars,
                 concat, scraped, target_df, display_rows, csv_rows, delay_vars>>

\* "4. Prepare Display"
Display ==
  /\ pc = "enrich"
  /\ enrich_i = Len(target_df)
  /\ display_rows' = build_display(df, target_df, date_list, tie_policy)
  /\ pc' = "export"
  /\ UNCHANGED <<job_i, all_raw_data, issued, paused, last_status, input_vars,
                 concat, df, scraped, target_df, enrich_i, fetch_calls, dep_writes,
                 csv_rows, delay_vars>>

\* "5. CSV Download"
Export ==
  /\ pc = "export"
  /\ csv_rows' = IF target_df # <<>> THEN build_csv(df, target_df) ELSE <<>>
  /\ pc' = "done"
  /\ UNCHANGED <<job_i, all_raw_data, issued, paused, last_status, input_vars,
                 concat, df, scraped, target_df, enrich_i, fetch_calls, dep_writes,
                 display_rows, delay_vars>>

Next ==
  \/ RequestOk(MaxRows, ScanRowSeqs)
  \/ RequestNon200
  \/ RequestError
  \/ Return
  \/ NoData
  \/ SelectTop
  \/ Enrich
  \/ Display
  \/ Export

Spec == Init /\ [][Next]_vars

(***************************************************************************)
(* The same run on a single date with both hour lists set, where up to     *)
(* MaxDayRows rows are accumulated.                                        *)
(***************************************************************************)
InitBusyDay ==
  InitScan({<<12>>}, {<<"0700">>}, {<<"1700">>}, {"ok"})

NextBusyDay ==
  \/ RequestOk(MaxDayRows, BusyRowSeqs)
  \/ RequestNon200
  \/ RequestError
  \/ Return
  \/ NoData
  \/ SelectTop
  \/ Enrich
  \/ Display
  \/ Export

SpecBusyDay == InitBusyDay /\ [][NextBusyDay]_vars

(***************************************************************************)
(* Claims about the scan (checked under Spec).                             *)
(***************************************************************************)
Returned == pc \in {"page", "no_data", "enrich", "export", "done"}
Selected == pc \in {"enrich", "export", "done"}
Enriched == pc \in {"export", "done"}

row_key(r) == <<r.dt_obj, r.From, r.To, r.SchedArr>>

\* the place of a row's group in the grouping order of its date
group_rank(r) ==
  IF r.To = <<"Sevenoaks">> THEN 1
  ELSE IF r.To = <<"London", "Charing", "Cross">> THEN 2 ELSE 3

text_minutes(t) == (t[1] * 10 + t[2]) * 60 + t[3] * 10 + t[4]

\* concat holds the groups in grouping order, each by ascending scheduled time
ConcatInOrder ==
  \A p, q \in 1..Len(concat) :
    p < q =>
      /\ concat[p].dt_obj <= concat[q].dt_obj
      /\ concat[p].dt_obj = concat[q].dt_obj =>
           /\ group_rank(concat[p]) <= group_rank(concat[q])
           /\ group_rank(concat[p]) = group_rank(concat[q]) =>
                text_minutes(concat[p].SchedArr) <= text_minutes(concat[q].SchedArr)

first_with_key(key) ==
  CHOOSE p \in 1..Len(concat) :
    /\ row_key(concat[p]) = key
    /\ \A q \in 1..(p - 1) : row_key(concat[q]) # key

\* C5: the table returned by run_full_scrape never holds two rows with the same
\* (date, from-station, to-station, scheduled-arrival text); of several rows of
\* the concatenated groups with one key the first in concatenation order is
\* kept (groups in grouping order, rows of a group by ascending scheduled time).
C5_NoDuplicateKeysFirstKept ==
  Returned =>
    /\ ConcatInOrder
    /\ \A i, j \in 1..Len(scraped) : i < j => row_key(scraped[i]) # row_key(scraped[j])
    /\ {row_key(scraped[i]) : i \in 1..Len(scraped)}
         = {row_key(concat[p]) : p \in 1..Len(concat)}
    /\ \A i \in 1..Len(scraped) :
         scraped[i] = concat[first_with_key(row_key(scraped[i]))]
    /\ \A i, j \in 1..Len(scraped) :
         i < j => first_with_key(row_key(scraped[i])) < first_with_key(row_key(scraped[j]))

\* two rows with one key and different content were concatenated
C5_Witness ==
  /\ pc = "done"
  /\ Len(scraped) >= 2
  /\ \E p, q \in 1..Len(concat) :
       /\ p < q
       /\ row_key(concat[p]) = row_key(concat[q])
       /\ concat[p] # concat[q]
       /\ \E i \in 1..Len(scraped) : scraped[i] = concat[p]

TotalJobs == Len(date_list) * (2 * Len(am_hours) + Len(pm_hours))

\* C6: a query that ends in a transport error or a non-success response adds
\* no row and leaves the rows accumulated so far as they are, and the scan goes
\* on: in the end every job of every date has been requested.
C6_FailedQueryIsLocal ==
  /\ [][(issued' = issued + 1 /\ last_status' \in {"error", "non200"}) =>
          (all_raw_data' = all_raw_data /\ job_i' = job_i + 1 /\ pc' = "scrape")]_vars
  /\ [](pc # "scrape" => (issued = TotalJobs /\ job_i = TotalJobs))

\* a query failed after rows had been accumulated and with jobs left to run
C6_Witness ==
  /\ pc = "scrape"
  /\ last_status = "error"
  /\ all_raw_data # <<>>
  /\ 1 < issued /\ issued < TotalJobs

\* C9: the queries are issued one at a time, and after every issued request,
\* whatever its outcome, the short pause is taken before the next is issued.
C9_PauseBeforeNextRequest ==
  [][(issued' = issued + 1 /\ issued > 0) => paused]_vars

occurrences(s, x) == Cardinality({k \in 1..Len(s) : s[k] = x})

\* C7: fetch_detailed_departure is called only for records of the selected
\* top-delay set and, once the enrichment is over, exactly once for each; the
\* scheduled-departure field of each selected record is written exactly once,
\* that of every other record keeps its placeholder '?', and no other field of
\* any record changes.
C7_EnrichmentFrame ==
  Selected =>
    /\ Len(df) = Len(scraped)
    /\ \A i \in 1..Len(df) :
         /\ [df[i] EXCEPT !.SchedDep = "?"] = scraped[i]
         /\ i \notin Range(target_df) =>
              /\ occurrences(fetch_calls, i) = 0
              /\ occurrences(dep_writes, i) = 0
              /\ df[i].SchedDep = "?"
         /\ i \in Range(target_df) =>
              /\ occurrences(fetch_calls, i) = occurrences(dep_writes, i)
              /\ occurrences(fetch_calls, i) = (IF Enriched THEN 1 ELSE occurrences(fetch_calls, i))
              /\ occurrences(fetch_calls, i) <= 1

\* the enrichment is over, it wrote a departure time, and a record was left out
C7_Witness ==
  /\ pc = "done"
  /\ \E i \in Range(target_df) : df[i].SchedDep \notin {"?", "-"}
  /\ \E i \in 1..Len(df) : i \notin Range(target_df) /\ i < Len(df)

date_place(day) == CHOOSE k \in 1..Len(date_list) : date_list[k] = day

\* C8: in the final display table the blocks of rows follow the order of the date
\* list, one block per date, and the rows of one date are in descending order of
\* delay minutes.
C8_DisplayOrder ==
  Enriched =>
    /\ {display_rows[k].Date[1] : k \in 1..Len(display_rows)} = Range(date_list)
    /\ \A k \in 1..(Len(display_rows) - 1) :
         /\ date_place(display_rows[k].Date[1]) <= date_place(display_rows[k + 1].Date[1])
         /\ display_rows[k].Date = display_rows[k + 1].Date =>
              display_rows[k].Delay_Mins >= display_rows[k + 1].Delay_Mins

\* two dates are displayed, the first with two rows of different delays
C8_Witness ==
  /\ pc = "done"
  /\ Len(display_rows) = 3
  /\ display_rows[1].Date = display_rows[2].Date
  /\ display_rows[1].Delay_Mins > display_rows[2].Delay_Mins
  /\ display_rows[2].Date # display_rows[3].Date
  /\ display_rows[3].Delay_Mins >= MinDelay

(***************************************************************************)
(* Claims about the top-delay set (checked under SpecBusyDay).             *)
(***************************************************************************)
kept_of(day) == {i \in Range(target_df) : df[i].dt_obj = day}
qualifying_of(day) == {i \in 1..Len(df) : df[i].dt_obj = day /\ df[i].Delay_Mins >= 15}

\* C4: for each requested date the selected set holds at most 5 records of that
\* date, each with a delay of at least 15 minutes, and no record of that date
\* with a delay of at least 15 that was left out has a strictly greater delay
\* than one that was kept; records left out are neither enriched nor exported.
C4_TopFivePerDate ==
  Selected =>
    /\ \A k \in 1..Len(date_list) :
         LET day == date_list[k]
         IN  /\ Cardinality(kept_of(day)) <= 5
             /\ kept_of(day) \subseteq qualifying_of(day)
             /\ \A out \in qualifying_of(day) \ kept_of(day) :
                  \A in \in kept_of(day) : df[out].Delay_Mins <= df[in].Delay_Mins
    /\ Range(fetch_calls) \subseteq Range(target_df)
    /\ pc = "done" =>
         /\ Len(csv_rows) = Len(target_df)
         /\ \A k \in 1..Len(csv_rows) :
              /\ csv_rows[k].SchedArr = df[target_df[k]].SchedArr
              /\ csv_rows[k].From = df[target_df[k]].From
              /\ csv_rows[k].To = df[target_df[k]].To
              /\ csv_rows[k].Delay_Mins = df[target_df[k]].Delay_Mins

\* six records of one date qualify, five are kept, and the one left out has a
\* smaller delay than a kept one
C4_Witness ==
  /\ pc = "done"
  /\ \E k \in 1..Len(date_list) :
       LET day == date_list[k]
       IN  /\ Cardinality(qualifying_of(day)) = 6
           /\ Cardinality(kept_of(day)) = 5
           /\ \E out \in qualifying_of(day) \ kept_of(day) :
                \E in \in kept_of(day) : df[out].Delay_Mins < df[in].Delay_Mins
  /\ Len(csv_rows) = 5

no_replacement(r) ==
  r.Delay_Mins = 999 /\ r.Status = <<"Cancelled (No replacement)">>

others_at_sentinel(i) ==
  {j \in 1..Len(df) : j # i /\ df[j].dt_obj = df[i].dt_obj /\ df[j].Delay_Mins >= 999}

\* C10 as stated: a cancelled record with the sentinel delay 999 that survives
\* deduplication is always in the selected top-delay set of its date.
C10_SentinelAlwaysSelected ==
  Selected =>
    \A i \in 1..Len(df) : no_replacement(df[i]) => i \in Range(target_df)

\* C10 as amended: a cancelled record with the sentinel delay 999 that survives
\* deduplication is in the selected top-delay set of its date whenever at most
\* 4 other surviving records of that date have a delay of 999 or more.
C10_SentinelSelectedUnlessCrowded ==
  Selected =>
    \A i \in 1..Len(df) :
      (no_replacement(df[i]) /\ Cardinality(others_at_sentinel(i)) <= 4)
        => i \in Range(target_df)

\* a sentinel record is selected on a date with six qualifying records
C10_Witness ==
  /\ pc = "done"
  /\ \E i \in Range(target_df) :
       /\ no_replacement(df[i])
       /\ Cardinality(others_at_sentinel(i)) = 3
       /\ Cardinality(qualifying_of(df[i].dt_obj)) = 6

====
